---- MODULE Spec2Model ----
(***************************************************************************)
(* Model of the video-sync server (Express + socket.io + mongoose): the    *)
(* in-memory room registry `rooms`, the socket.io adapter rooms, the       *)
(* Message collection, and the four socket handlers join-room,             *)
(* video-state-change, chat-message and disconnect.  The chat-message      *)
(* handler is async: it suspends at `await newMessage.save()` and at       *)
(* `await Message.findById(...).populate(...)`, so it is split in steps.   *)
(***************************************************************************)
EXTENDS Integers, Sequences, FiniteSets, TLC

\* ---------------------------------------------------------------- bounds
NumConns == 3      \* socket ids that ever connect
NumRooms == 2      \* room ids clients name
NumUsers == 1      \* user ids a valid token can carry
ChatConns == 2     \* socket ids that connect in Spec
MaxChats == 1      \* chat-message events received in Spec
MaxUpdates == 1    \* video-state-update packets sent to one connection
MaxClock == 1      \* largest value Date.now() reaches
MaxTime == 0       \* largest currentTime a client submits
RaceConns == 2     \* socket ids that connect in SpecRace
RaceRooms == 1     \* room ids clients name in SpecRace
RaceChats == 2     \* chat-message events received in SpecRace
RegistryUpdates == 2 \* video-state-update packets sent to one connection in SpecRegistry
PinConns == 2      \* clients in SpecPin
MaxFileSize == 2   \* largest size of the video file, in bytes
MaxDigit == 2      \* largest decimal digit in a Range header a client sends
MaxHeaderLen == 4  \* longest Range header, counting "bytes=" as one character
ClientConns == 2   \* Room components mounted in SpecClient
ClientRooms == 1   \* room ids the Room components show in SpecClient
ClientChats == 1   \* chat-message events received in SpecClient

Conns == 1..NumConns
RoomIds == 1..NumRooms
UserIds == 1..NumUsers
Texts == {"hi"}
BadToken == 0
Tokens == UserIds \cup {BadToken}
VideoStates == [isPlaying : BOOLEAN, currentTime : 0..MaxTime]

VARIABLES
    sockets,    \* socket id -> "idle" (not yet connected) | "open" | "closed"
    rooms,      \* const rooms = new Map(): roomId -> {videoState, users}
    sioRooms,   \* socket.io adapter: roomId -> set of sockets joined by socket.join
    messages,   \* Message collection, in insertion order
    chat,       \* chat-message handler invocations, in arrival order
    now,        \* Date.now()
    inbox,      \* socket id -> packets the server emitted to that socket, in order
    verified,   \* client of a socket id -> rooms whose verify-pin request it saw succeed
    stream,     \* the stream route's latest request and the response to it
    file,       \* the ReadStream piped into that response: "none" | "piping" | "ended" | "error"
    client      \* socket id -> state of the Room component that owns the socket

vars == <<sockets, rooms, sioRooms, messages, chat, now, inbox, verified, stream, file, client>>

\* ------------------------------------------------------------- helpers
DefaultVideoState == [isPlaying |-> FALSE, currentTime |-> 0]

\* variant: jwt.decode, which reads the payload without verifying it
JwtDecode(token) == [ok |-> TRUE, id |-> token]

\* jwt.verify(token, secret): the decoded payload, or a throw
JwtVerify(token) ==
    IF token \in UserIds THEN [ok |-> TRUE, id |-> token] ELSE [ok |-> FALSE, id |-> BadToken]

\* populate('user', 'username')
UserName(u) == <<"user", u>>

StateUpdate(videoState) == [event |-> "video-state-update", data |-> videoState]

ChatPacket(doc) ==
    [event |-> "chat-message", id |-> doc._id,
     data |-> [message |-> doc.message, username |-> UserName(doc.user),
               timestamp |-> doc.timestamp]]

\* variant: the packet is put ahead of the packets already queued
EmitAtFront(to, packet) ==
    [d \in Conns |-> IF d \in to THEN <<packet>> \o inbox[d] ELSE inbox[d]]

\* emit(packet) to a set of sockets: appended to each recipient's stream
Emit(to, packet) ==
    [d \in Conns |-> IF d \in to THEN Append(inbox[d], packet) ELSE inbox[d]]

\* socket.to(roomId): every socket in the adapter room except the sender
SocketTo(c, roomId) == sioRooms[roomId] \ {c}

\* io.to(roomId): every socket in the adapter room
IoTo(roomId) == sioRooms[roomId]

NumUpdates(d) ==
    Cardinality({i \in 1..Len(inbox[d]) : inbox[d][i].event = "video-state-update"})

\* app.get('/api/rooms/:id/messages'): Message.find({room}).populate('user',
\* 'username').sort({timestamp: 1}).  The order among equal timestamps is the
\* store's choice, so the route can answer with any ascending arrangement.
Populate(doc) ==
    [_id |-> doc._id, room |-> doc.room, user |-> [username |-> UserName(doc.user)],
     message |-> doc.message, timestamp |-> doc.timestamp]

ListMessages(roomId) ==
    LET found == {i \in 1..Len(messages) : messages[i].room = roomId}
        n == Cardinality(found)
        orders == {f \in [1..n -> found] :
                     /\ \A i, j \in 1..n : i # j => f[i] # f[j]
                     /\ \A i, j \in 1..n :
                          i < j => messages[f[i]].timestamp <= messages[f[j]].timestamp}
    IN {[i \in 1..n |-> Populate(messages[f[i]])] : f \in orders}

\* no stream request made yet
NoStream == [request |-> <<>>, response |-> <<>>]

\* a Room component that is not mounted: useState<Message[]>([])
NoClient == [fetch |-> "idle", roomId |-> <<>>, data |-> <<>>, messages |-> <<>>, seen |-> 0]

\* ---------------------------------------------------------------- Init
Init ==
    /\ sockets = [c \in Conns |-> "idle"]
    /\ rooms = <<>>
    /\ sioRooms = [r \in RoomIds |-> {}]
    /\ messages = <<>>
    /\ chat = <<>>
    /\ now = 0
    /\ inbox = [c \in Conns |-> <<>>]
    /\ verified = [c \in Conns |-> {}]
    /\ stream = NoStream
    /\ file = "none"
    /\ client = [c \in Conns |-> NoClient]

\* ------------------------------------------------------------- actions
\* io.on('connection'): registers the handlers, creates no state
Connect(c) ==
    /\ sockets[c] = "idle"
    /\ sockets' = [sockets EXCEPT ![c] = "open"]
    /\ UNCHANGED <<rooms, sioRooms, messages, chat, now, inbox, verified, stream, file, client>>

\* variant: a new session starts playing
JoinRoomAutoplay(c, roomId) ==
    /\ sockets[c] = "open"
    /\ sioRooms' = [sioRooms EXCEPT ![roomId] = @ \cup {c}]
    /\ LET created == IF roomId \in DOMAIN rooms THEN rooms
                      ELSE [r \in DOMAIN rooms \cup {roomId} |->
                              IF r = roomId
                              THEN [videoState |-> [isPlaying |-> TRUE, currentTime |-> 0],
                                    users |-> {}]
                              ELSE rooms[r]]
       IN rooms' = [created EXCEPT ![roomId].users = @ \cup {c}]
    /\ UNCHANGED <<sockets, messages, chat, now, inbox, verified, stream, file, client>>

\* socket.on('join-room', roomId)
JoinRoom(c, roomId) ==
    /\ sockets[c] = "open"
    /\ sioRooms' = [sioRooms EXCEPT ![roomId] = @ \cup {c}]
    /\ LET created == IF roomId \in DOMAIN rooms THEN rooms
                      ELSE [r \in DOMAIN rooms \cup {roomId} |->
                              IF r = roomId
                              THEN [videoState |-> DefaultVideoState, users |-> {}]
                              ELSE rooms[r]]
       IN rooms' = [created EXCEPT ![roomId].users = @ \cup {c}]
    /\ UNCHANGED <<sockets, messages, chat, now, inbox, verified, stream, file, client>>

\* variant: io.to(roomId) in place of socket.to(roomId), the sender is echoed
VideoStateChangeToAll(c, roomId, videoState) ==
    /\ sockets[c] = "open"
    /\ IF roomId \in DOMAIN rooms
       THEN /\ rooms' = [rooms EXCEPT ![roomId].videoState = videoState]
            /\ inbox' = Emit(IoTo(roomId), StateUpdate(videoState))
       ELSE UNCHANGED <<rooms, inbox>>
    /\ UNCHANGED <<sockets, sioRooms, messages, chat, now, verified, stream, file, client>>

\* variant: the update is relayed but room.videoState is not assigned
VideoStateChangeNoStore(c, roomId, videoState) ==
    /\ sockets[c] = "open"
    /\ IF roomId \in DOMAIN rooms
       THEN /\ rooms' = rooms
            /\ inbox' = Emit(SocketTo(c, roomId), StateUpdate(videoState))
       ELSE UNCHANGED <<rooms, inbox>>
    /\ UNCHANGED <<sockets, sioRooms, messages, chat, now, verified, stream, file, client>>

\* variant: a change for a room without a session creates the session
VideoStateChangeCreates(c, roomId, videoState) ==
    /\ sockets[c] = "open"
    /\ IF roomId \in DOMAIN rooms
       THEN /\ rooms' = [rooms EXCEPT ![roomId].videoState = videoState]
            /\ inbox' = Emit(SocketTo(c, roomId), StateUpdate(videoState))
       ELSE /\ rooms' = [r \in DOMAIN rooms \cup {roomId} |->
                           IF r = roomId
                           THEN [videoState |-> videoState, users |-> {}]
                           ELSE rooms[r]]
            /\ inbox' = inbox
    /\ UNCHANGED <<sockets, sioRooms, messages, chat, now, verified, stream, file, client>>

\* socket.on('video-state-change', {roomId, videoState})
VideoStateChange(c, roomId, videoState) ==
    /\ sockets[c] = "open"
    /\ IF roomId \in DOMAIN rooms
       THEN /\ rooms' = [rooms EXCEPT ![roomId].videoState = videoState]
            /\ inbox' = Emit(SocketTo(c, roomId), StateUpdate(videoState))
       ELSE UNCHANGED <<rooms, inbox>>
    /\ UNCHANGED <<sockets, sioRooms, messages, chat, now, verified, stream, file, client>>

\* variant: the handler first puts the sender in the room it writes to
ChatMessageJoinsRoom(c, roomId, message, token) ==
    /\ sockets[c] = "open"
    /\ sioRooms' = [sioRooms EXCEPT ![roomId] = @ \cup {c}]
    /\ LET decoded == JwtVerify(token)
           h == Len(chat) + 1
           newMessage == [_id |-> h, room |-> roomId, user |-> decoded.id,
                          message |-> message, timestamp |-> now]
       IN chat' = Append(chat,
                    IF decoded.ok
                    THEN [pc |-> "save", socket |-> c, roomId |-> roomId,
                          newMessage |-> <<newMessage>>, outcome |-> "pending"]
                    ELSE [pc |-> "done", socket |-> c, roomId |-> roomId,
                          newMessage |-> <<>>, outcome |-> "auth-failed"])
    /\ UNCHANGED <<sockets, rooms, messages, now, inbox, verified, stream, file, client>>

\* variant: the message is broadcast as soon as it is built, before the save
ChatMessageEmitsFirst(c, roomId, message, token) ==
    /\ sockets[c] = "open"
    /\ LET decoded == JwtVerify(token)
           h == Len(chat) + 1
           newMessage == [_id |-> h, room |-> roomId, user |-> decoded.id,
                          message |-> message, timestamp |-> now]
       IN IF decoded.ok
          THEN /\ chat' = Append(chat, [pc |-> "save", socket |-> c, roomId |-> roomId,
                                        newMessage |-> <<newMessage>>, outcome |-> "pending"])
               /\ inbox' = Emit(IoTo(roomId), ChatPacket(newMessage))
          ELSE /\ chat' = Append(chat, [pc |-> "done", socket |-> c, roomId |-> roomId,
                                        newMessage |-> <<>>, outcome |-> "auth-failed"])
               /\ inbox' = inbox
    /\ UNCHANGED <<sockets, rooms, sioRooms, messages, now, verified, stream, file, client>>

\* socket.on('chat-message', async {roomId, message, token}): the part that
\* runs synchronously, up to the first await.  jwt.verify throws on a bad
\* token and the catch block only logs; otherwise new Message(...) builds the
\* document (mongoose applies the `timestamp` default, Date.now, here).
ChatMessage(c, roomId, message, token) ==
    /\ sockets[c] = "open"
    /\ LET decoded == JwtVerify(token)
           h == Len(chat) + 1
           newMessage == [_id |-> h, room |-> roomId, user |-> decoded.id,
                          message |-> message, timestamp |-> now]
       IN chat' = Append(chat,
                    IF decoded.ok
                    THEN [pc |-> "save", socket |-> c, roomId |-> roomId,
                          newMessage |-> <<newMessage>>, outcome |-> "pending"]
                    ELSE [pc |-> "done", socket |-> c, roomId |-> roomId,
                          newMessage |-> <<>>, outcome |-> "auth-failed"])
    /\ UNCHANGED <<sockets, rooms, sioRooms, messages, now, inbox, verified, stream, file, client>>

\* await newMessage.save() resolves: the document is in the collection
ChatSaveOk(h) ==
    /\ h \in DOMAIN chat
    /\ chat[h].pc = "save"
    /\ messages' = Append(messages, chat[h].newMessage[1])
    /\ chat' = [chat EXCEPT ![h].pc = "find"]
    /\ UNCHANGED <<sockets, rooms, sioRooms, now, inbox, verified, stream, file, client>>

\* variant: the emit sits outside the try block and runs after a failed save
ChatSaveFailStillEmits(h) ==
    /\ h \in DOMAIN chat
    /\ chat[h].pc = "save"
    /\ chat' = [chat EXCEPT ![h].pc = "done", ![h].outcome = "save-failed"]
    /\ inbox' = Emit(IoTo(chat[h].roomId), ChatPacket(chat[h].newMessage[1]))
    /\ UNCHANGED <<sockets, rooms, sioRooms, messages, now, verified, stream, file, client>>

\* await newMessage.save() rejects: catch block, console.error only
ChatSaveFail(h) ==
    /\ h \in DOMAIN chat
    /\ chat[h].pc = "save"
    /\ chat' = [chat EXCEPT ![h].pc = "done", ![h].outcome = "save-failed"]
    /\ UNCHANGED <<sockets, rooms, sioRooms, messages, now, inbox, verified, stream, file, client>>

\* Message.findById(newMessage._id)
FindById(id) ==
    LET found == {i \in 1..Len(messages) : messages[i]._id = id}
    IN IF found = {} THEN <<>> ELSE <<messages[CHOOSE i \in found : TRUE]>>

\* await Message.findById(...).populate(...) resolves, then
\* io.to(roomId).emit('chat-message', {...})
ChatFindOk(h) ==
    /\ h \in DOMAIN chat
    /\ chat[h].pc = "find"
    /\ LET populatedMessage == FindById(chat[h].newMessage[1]._id)
       IN /\ populatedMessage # <<>>
          /\ inbox' = Emit(IoTo(chat[h].roomId), ChatPacket(populatedMessage[1]))
    /\ chat' = [chat EXCEPT ![h].pc = "done", ![h].outcome = "emitted"]
    /\ UNCHANGED <<sockets, rooms, sioRooms, messages, now, verified, stream, file, client>>

\* the lookup rejects, or the populated user is null and reading
\* populatedMessage.user.username throws: catch block, console.error only
ChatFindFail(h) ==
    /\ h \in DOMAIN chat
    /\ chat[h].pc = "find"
    /\ chat' = [chat EXCEPT ![h].pc = "done", ![h].outcome = "find-failed"]
    /\ UNCHANGED <<sockets, rooms, sioRooms, messages, now, inbox, verified, stream, file, client>>

\* variant: the emptied sessions are not deleted
DisconnectKeepsEmpty(c) ==
    /\ sockets[c] = "open"
    /\ sockets' = [sockets EXCEPT ![c] = "closed"]
    /\ sioRooms' = [r \in RoomIds |-> sioRooms[r] \ {c}]
    /\ rooms' = [r \in DOMAIN rooms |-> [rooms[r] EXCEPT !.users = @ \ {c}]]
    /\ UNCHANGED <<messages, chat, now, inbox, verified, stream, file, client>>

\* variant: the socket is removed from one session only
DisconnectLeavesOneRoom(c) ==
    /\ sockets[c] = "open"
    /\ sockets' = [sockets EXCEPT ![c] = "closed"]
    /\ sioRooms' = [r \in RoomIds |-> sioRooms[r] \ {c}]
    /\ LET joined == {r \in DOMAIN rooms : c \in rooms[r].users}
           first == IF joined = {} THEN {}
                    ELSE {CHOOSE r \in joined : \A q \in joined : r <= q}
           kept == {r \in DOMAIN rooms : r \notin first \/ rooms[r].users \ {c} # {}}
       IN rooms' = [r \in kept |->
                     IF r \in first THEN [rooms[r] EXCEPT !.users = @ \ {c}] ELSE rooms[r]]
    /\ UNCHANGED <<messages, chat, now, inbox, verified, stream, file, client>>

\* socket.on('disconnect'): socket.io has already removed the socket from
\* its adapter rooms; the handler removes it from every session and deletes
\* the sessions left empty
Disconnect(c) ==
    /\ sockets[c] = "open"
    /\ sockets' = [sockets EXCEPT ![c] = "closed"]
    /\ sioRooms' = [r \in RoomIds |-> sioRooms[r] \ {c}]
    /\ LET kept == {r \in DOMAIN rooms : rooms[r].users \ {c} # {}}
       IN rooms' = [r \in kept |-> [rooms[r] EXCEPT !.users = @ \ {c}]]
    /\ UNCHANGED <<messages, chat, now, inbox, verified, stream, file, client>>

\* time passes
Tick ==
    /\ now < MaxClock
    /\ now' = now + 1
    /\ UNCHANGED <<sockets, rooms, sioRooms, messages, chat, inbox, verified, stream, file, client>>

\* ------------------------------------------------------------ HTTP routes
\* Authorization header: absent, or "Bearer <token>"
AuthHeaders == {<<>>} \cup {<<t>> : t \in Tokens}

\* authenticateToken: 401 without a token, 403 when jwt.verify fails,
\* otherwise next() (written 200 here)
AuthenticateToken(authHeader) ==
    IF authHeader = <<>> THEN 401
    ELSE IF ~JwtVerify(authHeader[1]).ok THEN 403
    ELSE 200

\* the Room collection: every id of RoomIds has a document; its pin
RoomPin(roomId) == <<"pin", roomId>>

Pins == {RoomPin(r) : r \in RoomIds}

\* app.post('/api/rooms/:id/verify-pin'): the status of the response
VerifyPinStatus(authHeader, roomId, pin) ==
    IF AuthenticateToken(authHeader) # 200 THEN AuthenticateToken(authHeader)
    ELSE IF roomId \notin RoomIds THEN 404
    ELSE IF RoomPin(roomId) # pin THEN 403
    ELSE 200

\* a client sends verify-pin; on a 200 it sets isVerified for that room
\* (Room.tsx verifyPin).  The server keeps nothing of the request.
VerifyPin(c, authHeader, roomId, pin) ==
    /\ verified' = IF VerifyPinStatus(authHeader, roomId, pin) = 200
                   THEN [verified EXCEPT ![c] = @ \cup {roomId}]
                   ELSE verified
    /\ UNCHANGED <<sockets, rooms, sioRooms, messages, chat, now, inbox, stream, file, client>>

\* A Range header is a sequence of characters; the six characters of
\* "bytes=" are kept together as one.  The empty sequence stands for an
\* absent header and for the empty string, both falsy in `if (range)`.
DigitChars == <<"0", "1", "2", "3", "4", "5", "6", "7", "8", "9">>

IsDigit(ch) == \E i \in 1..Len(DigitChars) : DigitChars[i] = ch

DigitValue(ch) == (CHOOSE i \in 1..Len(DigitChars) : DigitChars[i] = ch) - 1

HeaderChars == {"bytes=", "-", "x"} \cup {DigitChars[i] : i \in 1..(MaxDigit + 1)}

RangeHeaders == UNION {[1..n -> HeaderChars] : n \in 0..MaxHeaderLen}

\* parseInt's result on a string that does not start with a digit
NaN == -1

RECURSIVE Decimal(_)
Decimal(digits) ==
    IF digits = <<>> THEN 0
    ELSE 10 * Decimal(SubSeq(digits, 1, Len(digits) - 1)) + DigitValue(digits[Len(digits)])

\* parseInt(str, 10): the value of the longest prefix of digits, NaN if none
ParseInt(str) ==
    LET k == CHOOSE n \in 0..Len(str) :
                 /\ \A i \in 1..n : IsDigit(str[i])
                 /\ n < Len(str) => ~IsDigit(str[n + 1])
    IN IF k = 0 THEN NaN ELSE Decimal(SubSeq(str, 1, k))

\* range.replace(/bytes=/, ""): the first "bytes=" is removed
ReplaceBytes(str) ==
    LET at == {i \in 1..Len(str) : str[i] = "bytes="}
    IN IF at = {} THEN str
       ELSE LET i == CHOOSE m \in at : \A q \in at : m <= q
            IN SubSeq(str, 1, i - 1) \o SubSeq(str, i + 1, Len(str))

\* str.split("-")
RECURSIVE SplitDash(_)
SplitDash(str) ==
    LET at == {i \in 1..Len(str) : str[i] = "-"}
    IN IF at = {} THEN <<str>>
       ELSE LET i == CHOOSE m \in at : \A q \in at : m <= q
            IN <<SubSeq(str, 1, i - 1)>> \o SplitDash(SubSeq(str, i + 1, Len(str)))

\* what Room.findById can resolve to: no document, or a document
RoomLookups ==
    {<<>>} \cup {<<[isLocalFile |-> l, localFilePath |-> f]>> :
                   l \in BOOLEAN, f \in {<<>>, <<"video.mp4">>}}

StreamRequests ==
    [authHeader : AuthHeaders, room : RoomLookups, fileExists : BOOLEAN,
     fileSize : 0..MaxFileSize, range : RangeHeaders]

\* a response without the stream headers: sendStatus / status(..).send(..)
PlainResponse(status) ==
    [status |-> status, contentRange |-> <<>>, contentLength |-> <<>>, window |-> <<>>]

\* fs.createReadStream(filePath, {start, end}) throws unless start and end
\* are integers >= 0 with start <= end
ReadStreamThrows(start, end) == start = NaN \/ end = NaN \/ end < 0 \/ start > end

\* app.get('/api/stream/:roomId', authenticateToken, ...): status, the
\* Content-Range and Content-Length headers, and the byte window piped
StreamResponse(req) ==
    IF AuthenticateToken(req.authHeader) # 200
    THEN PlainResponse(AuthenticateToken(req.authHeader))
    ELSE IF \/ req.room = <<>>
            \/ ~req.room[1].isLocalFile
            \/ req.room[1].localFilePath = <<>>
    THEN PlainResponse(404)
    ELSE IF ~req.fileExists
    THEN PlainResponse(500)
    ELSE IF req.range # <<>>
    THEN LET parts == SplitDash(ReplaceBytes(req.range))
             start == ParseInt(parts[1])
             end == IF Len(parts) >= 2 /\ parts[2] # <<>>
                    THEN ParseInt(parts[2])
                    ELSE req.fileSize - 1
             chunksize == (end - start) + 1
         IN IF ReadStreamThrows(start, end)
            THEN PlainResponse(500)
            ELSE [status |-> 206, contentRange |-> <<start, end, req.fileSize>>,
                  contentLength |-> <<chunksize>>, window |-> <<start, end>>]
    ELSE [status |-> 200, contentRange |-> <<>>,
          contentLength |-> <<req.fileSize>>, window |-> <<0, req.fileSize - 1>>]

\* one request to the stream route.  After writeHead(200 | 206) the handler
\* returns with the ReadStream piped into the response: the bytes are read
\* later, outside the try block.
StreamRequest(req) ==
    /\ stream' = [request |-> <<req>>, response |-> <<StreamResponse(req)>>]
    /\ file' = IF StreamResponse(req).status \in {200, 206} THEN "piping" ELSE "none"
    /\ UNCHANGED <<sockets, rooms, sioRooms, messages, chat, now, inbox, verified, client>>

\* file.pipe(res): the last byte of the window is read, pipe ends the response
FileEnd ==
    /\ file = "piping"
    /\ file' = "ended"
    /\ UNCHANGED <<sockets, rooms, sioRooms, messages, chat, now, inbox, verified, stream,
                   client>>

\* the open or a read of the file fails: the ReadStream emits 'error'.  The
\* handler has returned, so its catch block does not run; no 'error'
\* listener is registered and pipe() forwards none, so the status line
\* written by writeHead stays and no 500 is written.
FileError ==
    /\ file = "piping"
    /\ file' = "error"
    /\ UNCHANGED <<sockets, rooms, sioRooms, messages, chat, now, inbox, verified, stream,
                   client>>

\* ------------------------------------------------------- the Room client
\* Room.tsx useEffect, once isVerified: io(..), emit('join-room', roomId),
\* the two listeners, and fetchMessages() up to its await fetch(..).  The
\* connection and the join-room reach the server later (Connect, JoinRoom).
RoomMount(c, roomId) ==
    /\ client[c].fetch = "idle"
    /\ sockets[c] = "idle"
    /\ client' = [client EXCEPT ![c].fetch = "sent", ![c].roomId = <<roomId>>]
    /\ UNCHANGED <<sockets, rooms, sioRooms, messages, chat, now, inbox, verified, stream,
                   file>>

\* app.get('/api/rooms/:id/messages') serves the client's request; the token
\* is the one verify-pin accepted, so authenticateToken lets it through
MessagesRoute(c) ==
    /\ client[c].fetch = "sent"
    /\ \E data \in ListMessages(client[c].roomId[1]) :
          client' = [client EXCEPT ![c].fetch = "answered", ![c].data = data]
    /\ UNCHANGED <<sockets, rooms, sioRooms, messages, chat, now, inbox, verified, stream,
                   file>>

\* the response arrives at the client: setMessages(data)
FetchMessagesResolve(c) ==
    /\ client[c].fetch = "answered"
    /\ client' = [client EXCEPT ![c].fetch = "done", ![c].messages = client[c].data]
    /\ UNCHANGED <<sockets, rooms, sioRooms, messages, chat, now, inbox, verified, stream,
                   file>>

\* the next packet of the socket arrives at the client: the chat-message
\* listener does setMessages((prev) => [...prev, message]); the
\* video-state-update listener leaves the message list alone
OnSocketPacket(c) ==
    /\ client[c].fetch # "idle"
    /\ client[c].seen < Len(inbox[c])
    /\ LET packet == inbox[c][client[c].seen + 1]
       IN client' = [client EXCEPT
                       ![c].seen = @ + 1,
                       ![c].messages = IF packet.event = "chat-message"
                                       THEN Append(@, packet)
                                       ELSE @]
    /\ UNCHANGED <<sockets, rooms, sioRooms, messages, chat, now, inbox, verified, stream,
                   file>>

\* the environment: which sockets connect, which rooms, states and tokens
\* clients name, and how many events they send
NextOf(conns, roomIds, maxChats) ==
    \/ \E c \in conns : Connect(c)
    \/ \E c \in conns, r \in roomIds : JoinRoom(c, r)
    \/ \E c \in conns, r \in roomIds, vs \in VideoStates :
          /\ \A d \in SocketTo(c, r) : NumUpdates(d) < MaxUpdates
          /\ VideoStateChange(c, r, vs)
    \/ \E c \in conns, r \in roomIds, m \in Texts, t \in Tokens :
          /\ Len(chat) < maxChats
          /\ ChatMessage(c, r, m, t)
    \/ \E h \in 1..maxChats : ChatSaveOk(h)
    \/ \E h \in 1..maxChats : ChatSaveFail(h)
    \/ \E h \in 1..maxChats : ChatFindOk(h)
    \/ \E h \in 1..maxChats : ChatFindFail(h)
    \/ \E c \in conns : Disconnect(c)
    \/ Tick

\* Spec: the whole gateway, one chat-message handler
Next == NextOf(1..ChatConns, RoomIds, MaxChats)

Spec == Init /\ [][Next]_vars

\* SpecLive: Spec with fair scheduling of the handler's asynchronous steps:
\* a handler suspended at an await is resumed, with either outcome of the
\* awaited promise
ChatResume ==
    \E h \in 1..MaxChats : ChatSaveOk(h) \/ ChatSaveFail(h) \/ ChatFindOk(h) \/ ChatFindFail(h)

SpecLive == Init /\ [][Next]_vars /\ WF_vars(ChatResume)

\* SpecRace: two chat-message handlers in flight at once
NextRace == NextOf(1..RaceConns, 1..RaceRooms, RaceChats)

SpecRace == Init /\ [][NextRace]_vars

\* SpecRegistry: the registry handlers alone, every socket id
NextRegistry ==
    \/ \E c \in Conns : Connect(c)
    \/ \E c \in Conns, r \in RoomIds : JoinRoom(c, r)
    \/ \E c \in Conns, r \in RoomIds, vs \in VideoStates :
          /\ \A d \in SocketTo(c, r) : NumUpdates(d) < RegistryUpdates
          /\ VideoStateChange(c, r, vs)
    \/ \E c \in Conns : Disconnect(c)

SpecRegistry == Init /\ [][NextRegistry]_vars

\* SpecPin: clients that verify PINs and open sockets, in any order
NextPin ==
    \/ \E c \in 1..PinConns, a \in AuthHeaders, r \in 0..NumRooms, p \in Pins :
          VerifyPin(c, a, r, p)
    \/ \E c \in 1..PinConns : Connect(c)
    \/ \E c \in 1..PinConns, r \in RoomIds : JoinRoom(c, r)
    \/ \E c \in 1..PinConns : Disconnect(c)

SpecPin == Init /\ [][NextPin]_vars

\* SpecClient: Room components and the server they talk to; the store does
\* not fail, every token is valid, and a component's socket connects, joins
\* the component's room and sends chat messages for that room
NextClient ==
    \/ \E c \in 1..ClientConns, r \in 1..ClientRooms : RoomMount(c, r)
    \/ \E c \in 1..ClientConns : client[c].fetch # "idle" /\ Connect(c)
    \/ \E c \in 1..ClientConns :
          /\ client[c].fetch # "idle"
          /\ c \notin sioRooms[client[c].roomId[1]]
          /\ JoinRoom(c, client[c].roomId[1])
    \/ \E c \in 1..ClientConns, m \in Texts, t \in UserIds :
          /\ client[c].fetch # "idle"
          /\ Len(chat) < ClientChats
          /\ ChatMessage(c, client[c].roomId[1], m, t)
    \/ \E h \in 1..ClientChats : ChatSaveOk(h)
    \/ \E h \in 1..ClientChats : ChatFindOk(h)
    \/ \E c \in 1..ClientConns : MessagesRoute(c)
    \/ \E c \in 1..ClientConns : FetchMessagesResolve(c)
    \/ \E c \in 1..ClientConns : OnSocketPacket(c)

SpecClient == Init /\ [][NextClient]_vars

\* SpecStream: requests to the stream route; the route keeps nothing between
\* requests, so a behaviour follows a single request
NextStream ==
    \/ /\ stream = NoStream
       /\ \E req \in StreamRequests : StreamRequest(req)
    \/ FileEnd
    \/ FileError

SpecStream == Init /\ [][NextStream]_vars

\* ------------------------------------------------------------ properties
ChatPackets(d) == {i \in 1..Len(inbox[d]) : inbox[d][i].event = "chat-message"}

\* C1: the registry holds a session for room R iff a live connection is a
\* member of R (it joined R and has not disconnected); a session's user set
\* is exactly those connections and is never empty.
C1_SessionIffLiveMember ==
    /\ \A r \in RoomIds :
          r \in DOMAIN rooms <=> \E c \in Conns : sockets[c] = "open" /\ c \in sioRooms[r]
    /\ \A r \in DOMAIN rooms :
          /\ rooms[r].users # {}
          /\ rooms[r].users = sioRooms[r]
          /\ \A c \in rooms[r].users : sockets[c] = "open"

\* a connection that received packets as a member has disconnected, a chat
\* message was handled, and the last member's leaving emptied the registry
C1_Witness ==
    /\ \E c \in Conns : sockets[c] = "closed" /\ inbox[c] # <<>>
    /\ \E c \in Conns : sockets[c] = "closed" /\ inbox[c] = <<>>
    /\ Len(chat) > 0
    /\ DOMAIN rooms = {}

\* C2: a video-state-change from a member C of room R with N members appends
\* one video-state-update carrying the submitted state to the stream of each
\* of the N-1 other members of R, and nothing to C or to any other connection.
C2_UpdateToOthersOnly ==
    [][\A c \in Conns, r \in RoomIds, vs \in VideoStates :
         (/\ r \in DOMAIN rooms
          /\ c \in rooms[r].users
          /\ VideoStateChange(c, r, vs))
         => LET others == rooms[r].users \ {c}
            IN /\ Cardinality(others) = Cardinality(rooms[r].users) - 1
               /\ \A d \in Conns :
                    inbox'[d] = IF d \in others
                                THEN Append(inbox[d], StateUpdate(vs))
                                ELSE inbox[d]]_vars

\* a room of three members, two of which hold the update the third sent
C2_Witness ==
    \E r \in DOMAIN rooms, c \in Conns :
        /\ rooms[r].users = Conns
        /\ rooms[r].videoState # DefaultVideoState
        /\ inbox[c] = <<>>
        /\ \A d \in Conns \ {c} : inbox[d] = <<StateUpdate(rooms[r].videoState)>>

\* C3: every join-room appends to the joining connection's stream the room's
\* current playback state and the room's chat history.
C3_JoinReplaysStateAndHistory ==
    [][\A c \in Conns, r \in RoomIds :
         (sockets[c] = "open" /\ JoinRoom(c, r))
         => \E history \in ListMessages(r) :
              inbox'[c] = inbox[c] \o <<StateUpdate(rooms'[r].videoState),
                                         [event |-> "chat-history", data |-> history]>>]_vars

\* C4: every chat-message packet in any connection's stream is built from a
\* document that is in the Message collection and that the messages route
\* returns for the packet's room.
C4_StoredBeforeBroadcast ==
    \A d \in Conns : \A i \in ChatPackets(d) :
        LET p == inbox[d][i]
        IN \A history \in ListMessages(chat[p.id].roomId) :
             \E k \in 1..Len(history) :
                /\ history[k]._id = p.id
                /\ history[k].message = p.data.message
                /\ history[k].user.username = p.data.username
                /\ history[k].timestamp = p.data.timestamp

\* a connection other than the sender holds a chat-message packet
C4_Witness ==
    \E d \in Conns : \E i \in ChatPackets(d) : chat[inbox[d][i].id].socket # d

\* position of a document in the Message collection (insertion order)
StoredIndex(id) == CHOOSE j \in 1..Len(messages) : messages[j]._id = id

\* C5: two chat-message packets of one room reach every recipient in the
\* order in which their documents were stored.
C5_BroadcastInStoreOrder ==
    \A d \in Conns : \A i, j \in ChatPackets(d) :
        (i < j /\ chat[inbox[d][i].id].roomId = chat[inbox[d][j].id].roomId)
        => StoredIndex(inbox[d][i].id) < StoredIndex(inbox[d][j].id)

\* C6: when the handler of a verified and stored chat message finishes, the
\* message has been appended to the stream of every member of the room and
\* of the sending connection.
C6_StoredIsBroadcastToAll ==
    [][\A h \in DOMAIN chat :
         (chat[h].pc = "find" /\ chat'[h].pc = "done")
         => \A d \in Conns :
              (sockets[d] = "open" /\ (d = chat[h].socket \/ d \in sioRooms[chat[h].roomId]))
              => inbox'[d] = Append(inbox[d], ChatPacket(chat[h].newMessage[1]))]_vars

\* C7: a chat-message whose token fails verification is finished in the step
\* that receives it, which stores nothing, emits nothing to any connection
\* (sender included), and leaves the sender open and in its rooms; no later
\* step stores or emits anything for it.
C7_BadTokenDropped ==
    [][/\ \A c \in Conns, r \in RoomIds, m \in Texts :
            (sockets[c] = "open" /\ ChatMessage(c, r, m, BadToken))
            => /\ chat'[Len(chat')].outcome = "auth-failed"
               /\ chat'[Len(chat')].pc = "done"
               /\ UNCHANGED <<messages, inbox, sockets, rooms, sioRooms>>
       /\ \A h \in DOMAIN chat :
            chat[h].outcome = "auth-failed"
            => /\ chat'[h] = chat[h]
               /\ \A k \in 1..Len(messages') : messages'[k]._id # h
               /\ \A d \in Conns : \A i \in 1..Len(inbox'[d]) :
                    inbox'[d][i].event = "chat-message" => inbox'[d][i].id # h]_vars

\* a bad-token message was dropped while its sender shares a room with
\* another connection, and the sender is still open and in that room
C7_Witness ==
    \E h \in DOMAIN chat :
        /\ chat[h].outcome = "auth-failed"
        /\ sockets[chat[h].socket] = "open"
        /\ chat[h].socket \in sioRooms[chat[h].roomId]
        /\ Cardinality(sioRooms[chat[h].roomId]) > 1

\* C8: no step of a chat-message handler changes the registry or the adapter
\* rooms, and a video-state-change for a room with a chat handler suspended
\* on it replaces the room's state and is emitted to the other members as
\* it is with no chat message in flight.
C8_ChatLeavesRegistryAlone ==
    [][/\ chat' # chat => UNCHANGED <<rooms, sioRooms>>
       /\ \A c \in Conns, r \in RoomIds, vs \in VideoStates :
            (/\ r \in DOMAIN rooms
             /\ \E h \in DOMAIN chat : chat[h].roomId = r /\ chat[h].pc \in {"save", "find"}
             /\ VideoStateChange(c, r, vs))
            => /\ rooms' = [rooms EXCEPT ![r].videoState = vs]
               /\ inbox' = Emit(sioRooms[r] \ {c}, StateUpdate(vs))
               /\ UNCHANGED <<chat, messages>>]_vars

\* a chat handler is suspended on a room whose state another member has
\* changed and which a member holds as its latest packet
C8_Witness ==
    \E h \in DOMAIN chat, d \in Conns :
        /\ chat[h].pc \in {"save", "find"}
        /\ chat[h].roomId \in DOMAIN rooms
        /\ rooms[chat[h].roomId].videoState # DefaultVideoState
        /\ d \in rooms[chat[h].roomId].users
        /\ inbox[d] # <<>>
        /\ inbox[d][Len(inbox[d])] = StateUpdate(rooms[chat[h].roomId].videoState)

\* C9: a chat message whose save failed is finished, is not in the Message
\* collection and is in no connection's stream; the only packets any
\* connection receives are video-state-update and chat-message.
C9_SaveFailureNoBroadcast ==
    /\ \A h \in DOMAIN chat :
          chat[h].outcome = "save-failed"
          => /\ chat[h].pc = "done"
             /\ \A k \in 1..Len(messages) : messages[k]._id # h
             /\ \A d \in Conns : \A i \in ChatPackets(d) : inbox[d][i].id # h
    /\ \A d \in Conns : \A i \in 1..Len(inbox[d]) :
          inbox[d][i].event \in {"video-state-update", "chat-message"}

\* a save failed for a message whose sender is open and in the room with
\* another connection
C9_Witness ==
    \E h \in DOMAIN chat :
        /\ chat[h].outcome = "save-failed"
        /\ sockets[chat[h].socket] = "open"
        /\ chat[h].socket \in sioRooms[chat[h].roomId]
        /\ Cardinality(sioRooms[chat[h].roomId]) > 1

\* position of a document in a history the messages route returned
HistoryIndex(history, id) == CHOOSE k \in 1..Len(history) : history[k]._id = id

\* C10: the messages route can answer with a history in which any two
\* messages of the room stand in the order in which their chat-message
\* packets reached each connection.
C10_HistoryOrderMatchesBroadcast ==
    \A r \in RoomIds : \E history \in ListMessages(r) :
        \A d \in Conns : \A i, j \in ChatPackets(d) :
            (i < j /\ chat[inbox[d][i].id].roomId = r /\ chat[inbox[d][j].id].roomId = r)
            => HistoryIndex(history, inbox[d][i].id) < HistoryIndex(history, inbox[d][j].id)

\* C11: within a room the timestamps of the stored messages are
\* non-decreasing in insertion order.
C11_TimestampsFollowInsertion ==
    \A i, j \in 1..Len(messages) :
        (i < j /\ messages[i].room = messages[j].room)
        => messages[i].timestamp <= messages[j].timestamp

\* C12: the disconnect of a room's last member deletes the session, and a
\* session that appears is the default state with the joining connection as
\* its only user.
C12_EmptiedRoomRestartsDefault ==
    [][/\ \A c \in Conns, r \in DOMAIN rooms :
            (rooms[r].users = {c} /\ Disconnect(c)) => r \notin DOMAIN rooms'
       /\ \A r \in RoomIds :
            (r \notin DOMAIN rooms /\ r \in DOMAIN rooms')
            => /\ rooms'[r].videoState = DefaultVideoState
               /\ \E c \in Conns : rooms'[r].users = {c} /\ JoinRoom(c, r)]_vars

\* every connection that received a non-default update has disconnected and
\* a room has a session again, in the default state
C12_Witness ==
    /\ \E c \in Conns :
          /\ sockets[c] = "closed"
          /\ inbox[c] # <<>>
          /\ inbox[c][Len(inbox[c])].data # DefaultVideoState
    /\ \A c \in Conns : inbox[c] # <<>> => sockets[c] = "closed"
    /\ \E r \in DOMAIN rooms : rooms[r].videoState = DefaultVideoState

\* C13: a video-state-change for a room with a session leaves the session
\* holding exactly the submitted state, whatever it held before, and the
\* packets the step emits carry the state the session then holds.
C13_LastWriteWins ==
    [][\A c \in Conns, r \in RoomIds, vs \in VideoStates :
         (r \in DOMAIN rooms /\ VideoStateChange(c, r, vs))
         => /\ rooms'[r].videoState = vs
            /\ rooms'[r].users = rooms[r].users
            /\ \A d \in Conns :
                 Len(inbox'[d]) > Len(inbox[d])
                 => inbox'[d][Len(inbox'[d])].data = rooms'[r].videoState]_vars

\* a member holds two different updates and the session holds the later one
C13_Witness ==
    \E r \in DOMAIN rooms, d \in Conns :
        /\ d \in rooms[r].users
        /\ \A q \in RoomIds \ {r} : d \notin sioRooms[q]
        /\ Len(inbox[d]) = 2
        /\ inbox[d][1] # inbox[d][2]
        /\ inbox[d][2] = StateUpdate(rooms[r].videoState)

\* C14: no step removes or reorders the packets a connection already holds,
\* and the update of a video-state-change is placed after all of them, so
\* each member's stream lists the updates in the order the requests arrived.
C14_UpdatesInArrivalOrder ==
    [][/\ \A d \in Conns :
            /\ Len(inbox'[d]) >= Len(inbox[d])
            /\ \A i \in 1..Len(inbox[d]) : inbox'[d][i] = inbox[d][i]
       /\ \A c \in Conns, r \in RoomIds, vs \in VideoStates :
            (r \in DOMAIN rooms /\ VideoStateChange(c, r, vs))
            => \A d \in sioRooms[r] \ {c} :
                 /\ Len(inbox'[d]) = Len(inbox[d]) + 1
                 /\ inbox'[d][Len(inbox'[d])] = StateUpdate(vs)]_vars

\* two members of one room hold the same two different updates, in the
\* same order
C14_Witness ==
    \E r \in DOMAIN rooms, d, e \in Conns :
        /\ d # e
        /\ {d, e} \subseteq rooms[r].users
        /\ Len(inbox[d]) = 2
        /\ inbox[d][1] # inbox[d][2]
        /\ inbox[e] = inbox[d]

\* C15: a video-state-change for a room without a session changes nothing,
\* and a session appears only in the join-room step of its first member.
C15_ChangeWithoutSessionIsNoOp ==
    [][/\ \A c \in Conns, r \in RoomIds, vs \in VideoStates :
            (r \notin DOMAIN rooms /\ VideoStateChange(c, r, vs)) => UNCHANGED vars
       /\ \A r \in RoomIds :
            (r \notin DOMAIN rooms /\ r \in DOMAIN rooms')
            => /\ inbox' = inbox
               /\ \E c \in Conns : c \in sioRooms'[r] /\ c \notin sioRooms[r]]_vars

\* an open connection can name a room without a session while another room
\* has a session in a non-default state with two members
C15_Witness ==
    \E r \in RoomIds, q \in DOMAIN rooms, c \in Conns :
        /\ r \notin DOMAIN rooms
        /\ sockets[c] = "open"
        /\ rooms[q].videoState # DefaultVideoState
        /\ Cardinality(rooms[q].users) = 2

\* C16: a disconnected connection is in no socket.io room and in no session's
\* user set, stays disconnected, and its stream never grows again.
C16_DisconnectedIsNowhere ==
    [][\A c \in Conns :
         /\ sockets'[c] = "closed"
            => /\ \A r \in RoomIds : c \notin sioRooms'[r]
               /\ \A r \in DOMAIN rooms' : c \notin rooms'[r].users
         /\ sockets[c] = "closed"
            => sockets'[c] = "closed" /\ inbox'[c] = inbox[c]]_vars

\* a connection that was in a room has disconnected, both rooms have
\* sessions, and the chat message it sent was broadcast without it
C16_Witness ==
    \E c \in Conns, h \in DOMAIN chat :
        /\ sockets[c] = "closed"
        /\ inbox[c] # <<>>
        /\ DOMAIN rooms = RoomIds
        /\ chat[h].socket = c
        /\ chat[h].outcome = "emitted"
        /\ \A i \in ChatPackets(c) : inbox[c][i].id # h
        /\ \E d \in Conns : \E i \in ChatPackets(d) : inbox[d][i].id = h

\* C17: every connection is in at most one socket.io room and in at most one
\* session's user set.
C17_AtMostOneRoom ==
    \A c \in Conns :
        /\ Cardinality({r \in RoomIds : c \in sioRooms[r]}) <= 1
        /\ Cardinality({r \in DOMAIN rooms : c \in rooms[r].users}) <= 1

\* C18: a connection is in room R only if a verify-pin request of its client
\* for R has succeeded before.
C18_MemberHasVerifiedPin ==
    \A c \in Conns, r \in RoomIds : c \in sioRooms[r] => r \in verified[c]

\* the latest stream request reached the range handling of a local-file
\* room: token accepted, room found with a file path, file present
StreamServed ==
    /\ stream.request # <<>>
    /\ AuthenticateToken(stream.request[1].authHeader) = 200
    /\ stream.request[1].room # <<>>
    /\ stream.request[1].room[1].isLocalFile
    /\ stream.request[1].room[1].localFilePath # <<>>
    /\ stream.request[1].fileExists

\* bytes=<start>-<end?>: "bytes=", one or more digits, "-", digits or nothing
WellFormedRange(range) ==
    /\ Len(range) >= 3
    /\ range[1] = "bytes="
    /\ \E d \in 3..Len(range) :
          /\ range[d] = "-"
          /\ \A i \in 2..(d - 1) : IsDigit(range[i])
          /\ \A i \in (d + 1)..Len(range) : IsDigit(range[i])

RangeDash(range) == CHOOSE d \in 3..Len(range) : range[d] = "-"

\* the start and end the header names
RangeStart(range) == Decimal(SubSeq(range, 2, RangeDash(range) - 1))

RangeEnd(range, fileSize) ==
    IF RangeDash(range) = Len(range) THEN fileSize - 1
    ELSE Decimal(SubSeq(range, RangeDash(range) + 1, Len(range)))

ClampStart(start, fileSize) == IF start > fileSize - 1 THEN fileSize - 1 ELSE start

\* C19: for a local-file room with a file of S >= 1 bytes and a well-formed
\* Range header, the response is 206 with Content-Range start'-end'/S and
\* Content-Length end' - start' + 1, where start' is start clamped into
\* [0, S-1] and end' is end, or S-1 when end is omitted.
C19_RangeResponse ==
    (/\ StreamServed
     /\ stream.request[1].fileSize >= 1
     /\ WellFormedRange(stream.request[1].range))
    => LET size == stream.request[1].fileSize
           start == ClampStart(RangeStart(stream.request[1].range), size)
           end == RangeEnd(stream.request[1].range, size)
       IN /\ stream.response[1].status = 206
          /\ stream.response[1].contentRange = <<start, end, size>>
          /\ stream.response[1].contentLength = <<end - start + 1>>

\* C20: for a local-file room, a request without a Range header or with a
\* malformed one gets status 200, Content-Length S and the whole file.
C20_NoOrMalformedRangeIsFull ==
    (/\ StreamServed
     /\ ~WellFormedRange(stream.request[1].range))
    => /\ stream.response[1].status = 200
       /\ stream.response[1].contentLength = <<stream.request[1].fileSize>>
       /\ stream.response[1].window = <<0, stream.request[1].fileSize - 1>>

\* C21: a filesystem or I/O failure while the bytes of a started stream
\* response are being read ends that request with status 500, never with
\* the 200 or 206 already chosen.
C21_ReadFailureIs500 ==
    file = "error" => stream.response[1].status = 500

\* C22: a video-state-change sent by a connection that is not a member of
\* the room it names leaves that room's playback state as it is and sends
\* no video-state-update to anyone: only a member's request has an effect.
C22_OnlyMembersChangeState ==
    [][\A c \in Conns, r \in RoomIds, vs \in VideoStates :
         (/\ r \in DOMAIN rooms
          /\ c \notin rooms[r].users
          /\ c \notin sioRooms[r]
          /\ VideoStateChange(c, r, vs))
         => /\ rooms' = rooms
            /\ inbox' = inbox]_vars

\* the bytes of the file that lie in the window start..end
BytesInWindow(start, end, fileSize) ==
    Cardinality({b \in 0..(fileSize - 1) : start <= b /\ b <= end})

\* C24: every 206 response describes a window inside the file,
\* 0 <= start <= end <= fileSize - 1, and its Content-Length is positive, at
\* most fileSize, and the number of bytes the file holds in that window.
C24_WindowInsideFile ==
    (stream.response # <<>> /\ stream.response[1].status = 206)
    => LET start == stream.response[1].contentRange[1]
           end == stream.response[1].contentRange[2]
           fileSize == stream.request[1].fileSize
           chunksize == stream.response[1].contentLength[1]
       IN /\ 0 <= start /\ start <= end /\ end <= fileSize - 1
          /\ 0 < chunksize /\ chunksize <= fileSize
          /\ chunksize = BytesInWindow(start, end, fileSize)

\* C25: every chat message that is stored is eventually broadcast to its
\* room, whatever the outcome of the lookup between save and emit.
C25_StoredEventuallyBroadcast ==
    \A h \in 1..MaxChats :
        (\E k \in 1..Len(messages) : messages[k]._id = h)
        ~> (h \in DOMAIN chat /\ chat[h].outcome = "emitted")

\* the stored message an entry of a client's list shows: a history entry
\* carries _id, a broadcast entry is tagged with the id of its document
EntryId(entry) == IF "_id" \in DOMAIN entry THEN entry._id ELSE entry.id

\* how many entries of c's message list show stored message id
TimesShown(c, id) ==
    Cardinality({i \in 1..Len(client[c].messages) : EntryId(client[c].messages[i]) = id})

\* C23: once a Room client has the history response and every packet sent
\* to its socket, and no chat handler is in flight, every stored message of
\* its room that the history or a broadcast brought to it is shown exactly
\* once in its message list.
C23_EachMessageShownOnce ==
    \A c \in Conns :
        (/\ client[c].fetch = "done"
         /\ client[c].seen = Len(inbox[c])
         /\ \A h \in DOMAIN chat : chat[h].pc = "done")
        => \A k \in 1..Len(messages) :
             (/\ messages[k].room = client[c].roomId[1]
              /\ \/ \E i \in 1..Len(client[c].data) : client[c].data[i]._id = messages[k]._id
                 \/ \E i \in ChatPackets(c) : inbox[c][i].id = messages[k]._id)
             => TimesShown(c, messages[k]._id) = 1

====
